---- MODULE Spec2Model ----
(***************************************************************************)
(* Model of twit.py: the two repository backends (GitExeRepo, driven by    *)
(* git plumbing commands, and PyGit2Repo, driven by pygit2) and the        *)
(* TwitMixin.save snapshot operation, over an abstract Git repository      *)
(* (work tree, index, HEAD, references, commits).                          *)
(*                                                                         *)
(* Python strings are sequences of atoms: a path component, a separator    *)
(* ("/", "\n", "\0") or a status letter is one atom.  The empty string is  *)
(* the empty sequence.                                                     *)
(***************************************************************************)
EXTENDS Integers, Sequences, FiniteSets, TLC

\* ---------------------------------------------------------------- bounds
\* Last whole second the clock read by save() can show.
MaxTime == 2
\* Longest chain of commits that is built.
MaxDepth == 2
\* Number of steps (edits, git commands, calls) of a run.
MaxSteps == 6

\* ------------------------------------------------------- python strings
\* The separator atoms: '\n' and '\0'.
NL == "\n"
NUL == "NUL"

StartsWith(s, prefix) ==
    /\ Len(s) >= Len(prefix)
    /\ SubSeq(s, 1, Len(prefix)) = prefix

\* Mutant of ReSubAnchored: the pattern without its '^', so every occurrence
\* of the prefix is removed.
RECURSIVE ReSubAnywhere(_, _)
ReSubAnywhere(prefix, s) ==
    IF s = <<>> THEN <<>>
    ELSE IF StartsWith(s, prefix)
         THEN ReSubAnywhere(prefix, SubSeq(s, Len(prefix) + 1, Len(s)))
         ELSE <<Head(s)>> \o ReSubAnywhere(prefix, Tail(s))

\* re.sub('^' + prefix, '', s): only a match anchored at the start is removed.
ReSubAnchored(prefix, s) ==
    IF StartsWith(s, prefix) THEN SubSeq(s, Len(prefix) + 1, Len(s)) ELSE s

\* s.rstrip(chars)
RECURSIVE RStrip(_, _)
RStrip(s, chars) ==
    IF s # <<>> /\ s[Len(s)] \in chars
    THEN RStrip(SubSeq(s, 1, Len(s) - 1), chars)
    ELSE s

\* s.split(sep): the list of the pieces between separators; ''.split(sep) is
\* [''], a list holding one empty string.
RECURSIVE Split(_, _)
Split(s, sep) ==
    IF \A i \in 1..Len(s) : s[i] # sep
    THEN <<s>>
    ELSE LET i == CHOOSE k \in 1..Len(s) :
                      s[k] = sep /\ \A j \in 1..(k - 1) : s[j] # sep
         IN  <<SubSeq(s, 1, i - 1)>> \o Split(SubSeq(s, i + 1, Len(s)), sep)

\* The elements of a python list.
Elements(list) == {list[i] : i \in 1..Len(list)}

\* An arbitrary fixed enumeration of a finite set (the order in which git or
\* libgit2 lists things; the code never relies on it).
RECURSIVE Enumerate(_)
Enumerate(S) ==
    IF S = {} THEN <<>>
    ELSE LET x == CHOOSE y \in S : TRUE IN <<x>> \o Enumerate(S \ {x})

\* '\n'.join(lines) + '\n' for a non-empty list, '' for an empty one.
RECURSIVE Lines(_, _)
Lines(list, sep) ==
    IF list = <<>> THEN <<>>
    ELSE Head(list) \o <<sep>> \o Lines(Tail(list), sep)

\* ------------------------------------------------------------ repository
\* Index order (byte order of the path names).
SortedPaths == <<"README", "subdir/subfile">>
Paths == Elements(SortedPaths)
Contents == {"original", "changed"}
\* What the user writes into each file.
Written == [p \in Paths |-> IF p = "README" THEN Contents ELSE {"original"}]
Absent == "absent"
EmptyTree == [p \in Paths |-> Absent]

\* Directories a process can be in.
WorkDir == "workdir"
SubDir == "workdir/subdir"
GitDir == "workdir/.git"
\* Directories the caller changes into.
CallerDirs == {WorkDir, SubDir}
\* Paths below a directory of the work tree.
Under(dir) ==
    IF dir = WorkDir THEN Paths
    ELSE IF dir = SubDir THEN {"subdir/subfile"}
    ELSE {}

HeadsPrefix == <<"refs", "/", "heads", "/">>
TagsPrefix == <<"refs", "/", "tags", "/">>
Master == <<"master">>
\* A legal branch name that itself looks like a full reference name.
OddBranch == <<"refs", "/", "heads", "/", "x">>
BranchNames == {Master, OddBranch}
TagRef == TagsPrefix \o <<"v1.0">>

\* The message of save() and the message of a caller of commit().
SnapshotMessage == "Snapshot taken via twit save."
Messages == {"initial commit"}

\* A commit object is its content: equal content is the same object.
CommitObject(tree, parents, time, message) ==
    [tree |-> tree, parents |-> parents, time |-> time, message |-> message]

RECURSIVE Depth(_)
Depth(parents) ==
    IF parents = <<>> THEN 0 ELSE 1 + Depth(parents[1].parents)

\* ------------------------------------------------- process state, results
\* The state an operation runs on, and what it gives back: the state it
\* leaves, the exception it raised ("" when it returned) and the value returned.
ProcState(w, i, h, r, d) ==
    [worktree |-> w, index |-> i, HEAD |-> h, refs |-> r, cwd |-> d]
Return(s, value) == [s |-> s, raised |-> "", ret |-> value]
Raise(s, exception) == [s |-> s, raised |-> exception, ret |-> <<>>]
None == <<"None">>
True == <<"True">>
False == <<"False">>
Truthy(value) == value = True

\* os.chdir(path)
Chdir(s, path) == [s EXCEPT !.cwd = path]

\* with _cd(path): body.  `body` is the result of the block, run after
\* os.chdir(path); the os.chdir(old_cwd) after the yield is reached only when
\* the block does not raise.
Cd(old_cwd, body) ==
    IF body.raised = "" THEN [body EXCEPT !.s = Chdir(body.s, old_cwd)] ELSE body

\* ------------------------------------------------------------ git engine
\* What the git executable and libgit2 do with the repository.
IsSymbolic(s) == s.HEAD.ref # <<>>
IsUnborn(s) == IsSymbolic(s) /\ s.HEAD.ref[1] \notin DOMAIN s.refs
\* The commit HEAD resolves to: <<c>>, or <<>> when HEAD is unborn.
HeadCommit(s) ==
    IF IsSymbolic(s)
    THEN IF IsUnborn(s) THEN <<>> ELSE <<s.refs[s.HEAD.ref[1]]>>
    ELSE s.HEAD.commit
HeadTree(s) == IF HeadCommit(s) = <<>> THEN EmptyTree ELSE HeadCommit(s)[1].tree

\* _git(...): stdout with trailing whitespace removed.
GitOutput(stdout) == RStrip(stdout, {NL, " "})

\* git symbolic-ref -q HEAD
SymbolicRefHead(s) == GitOutput(IF IsSymbolic(s) THEN s.HEAD.ref[1] \o <<NL>> ELSE <<>>)
\* git for-each-ref --format %(refname)
ForEachRef(s) == GitOutput(Lines(Enumerate(DOMAIN s.refs), NL))

\* git status -z: one "XY path\0" entry per change; X compares the index with
\* the HEAD tree, Y the work tree with the index.
StatusEntries(s, p) ==
    LET h == HeadTree(s)[p]
        i == s.index[p]
        w == s.worktree[p]
        x == IF i = h THEN " " ELSE IF h = Absent THEN "A"
             ELSE IF i = Absent THEN "D" ELSE "M"
        y == IF w = i THEN " " ELSE IF w = Absent THEN "D" ELSE "M"
    IN  IF i # Absent
        THEN IF x = " " /\ y = " " THEN <<>> ELSE <<x, y, " ", p, NUL>>
        ELSE (IF h # Absent THEN <<"D", " ", " ", p, NUL>> ELSE <<>>)
             \o (IF w # Absent THEN <<"?", "?", " ", p, NUL>> ELSE <<>>)
RECURSIVE StatusOf(_, _)
StatusOf(s, paths) ==
    IF paths = <<>> THEN <<>>
    ELSE StatusEntries(s, Head(paths)) \o StatusOf(s, Tail(paths))
StatusZ(s) == GitOutput(StatusOf(s, SortedPaths))

\* pygit2 Repository.status(): path -> flags, for the paths that are not current.
GIT_STATUS_CURRENT == {}
StatusFlags(s, p) ==
    LET h == HeadTree(s)[p]
        i == s.index[p]
        w == s.worktree[p]
    IN  (IF i = h THEN {} ELSE IF h = Absent THEN {"INDEX_NEW"}
         ELSE IF i = Absent THEN {"INDEX_DELETED"} ELSE {"INDEX_MODIFIED"})
        \cup
        (IF w = i THEN {} ELSE IF i = Absent THEN {"WT_NEW"}
         ELSE IF w = Absent THEN {"WT_DELETED"} ELSE {"WT_MODIFIED"})
Status(s) ==
    [p \in {q \in Paths : StatusFlags(s, q) # GIT_STATUS_CURRENT} |-> StatusFlags(s, p)]

\* git add --all . run in s.cwd: every path below it is staged as it is in
\* the work tree (new, modified, deleted).
GitAddAll(s) ==
    [s EXCEPT !.index = [p \in Paths |->
        IF p \in Under(s.cwd) THEN s.worktree[p] ELSE s.index[p]]]
\* git read-tree <commit>, git read-tree --empty; Index.read_tree, Index.clear
ReadTree(s, tree) == [s EXCEPT !.index = tree]
\* git write-tree; Index.write_tree
WriteTree(s) == s.index
\* git update-ref <ref> <commit>
UpdateRef(s, ref, commit) == [s EXCEPT !.refs = (ref :> commit) @@ s.refs]
\* git reset --hard <commit>; Repository.reset(oid, GIT_RESET_HARD)
ResetHard(s, commit) ==
    [s EXCEPT !.index = commit.tree, !.worktree = commit.tree]

\* What a name given to git rev-parse / git checkout resolves to: the full
\* reference name, or <<>>.
ResolveRef(s, name) ==
    IF name \in DOMAIN s.refs THEN name
    ELSE IF (TagsPrefix \o name) \in DOMAIN s.refs THEN TagsPrefix \o name
    ELSE IF (HeadsPrefix \o name) \in DOMAIN s.refs THEN HeadsPrefix \o name
    ELSE <<>>
\* git rev-parse --verify -q <name>: the commit, or ''.
RevParse(s, name) ==
    IF ResolveRef(s, name) = <<>> THEN <<>> ELSE <<s.refs[ResolveRef(s, name)]>>
\* git checkout -q <name>: a branch name attaches HEAD to the branch, anything
\* else detaches it.  A path whose staged content differs from both the old
\* and the new tree makes git refuse, and nothing changes.
GitCheckout(s, name) ==
    LET old == HeadTree(s)
        new == RevParse(s, name)[1].tree
        refuses == \E p \in Paths :
                       /\ old[p] # new[p]
                       /\ s.index[p] # old[p]
                       /\ s.index[p] # new[p]
        moved(t) == [p \in Paths |->
                        IF old[p] # new[p] /\ s.index[p] = old[p] THEN new[p] ELSE t[p]]
    IN  IF refuses THEN s
        ELSE [s EXCEPT !.index = moved(s.index),
                       !.worktree = moved(s.worktree),
                       !.HEAD = IF (HeadsPrefix \o name) \in DOMAIN s.refs
                                THEN [ref |-> <<HeadsPrefix \o name>>, commit |-> <<>>]
                                ELSE [ref |-> <<>>, commit |-> RevParse(s, name)]]

\* ------------------------------------------------------------ GitExeRepo
\* GitExeRepo.from_cwd() in the work tree: path is the absolute .git
\* directory, workdir the absolute top level.
SelfPath == GitDir
SelfWorkdir == WorkDir

GitExe_current_branch(s) ==
    Cd(s.cwd,
       LET in == Chdir(s, SelfPath)
           ref == SymbolicRefHead(in)
       IN  IF ref = <<>> THEN Raise(in, "DetachedHead")
           ELSE Return(in, ReSubAnchored(HeadsPrefix, ref)))

GitExe_refs(s) ==
    Cd(s.cwd,
       LET in == Chdir(s, SelfPath)
       IN  Return(in, Split(ForEachRef(in), NL)))

GitExe_branches(s) ==
    LET r == GitExe_refs(s)
        keep(ref) == StartsWith(ref, HeadsPrefix)
    IN  [r EXCEPT !.ret = [i \in 1..Len(SelectSeq(r.ret, keep)) |->
                               ReSubAnchored(HeadsPrefix, SelectSeq(r.ret, keep)[i])]]

GitExe_dirty(s) ==
    Cd(s.cwd,
       LET in == Chdir(s, SelfWorkdir)
           status == RStrip(StatusZ(in), {NUL, " "})
           lines == Split(status, NUL)
       IN  IF status = <<>> THEN Return(in, None)
           ELSE IF \E n \in 1..Len(lines) : lines[n][2] \notin {" ", "!"}
                THEN Return(in, True)
                ELSE Return(in, False))

GitExe_stage_all(s) ==
    Cd(s.cwd,
       LET in == Chdir(s, SelfWorkdir)
       IN  Return(GitAddAll(in), None))

GitExe_unstage_all(s) ==
    Cd(s.cwd,
       LET in == Chdir(s, SelfWorkdir)
           head == HeadCommit(in)
       IN  IF head # <<>> THEN Return(ReadTree(in, head[1].tree), None)
           ELSE Return(ReadTree(in, EmptyTree), None))

\* os.remove(path) for each path of the list, from directory SelfWorkdir.
RECURSIVE RemoveEach(_, _)
RemoveEach(s, paths) ==
    IF paths = <<>> THEN Return(s, None)
    ELSE IF Head(paths) \notin Paths \/ s.worktree[Head(paths)] = Absent
         THEN Raise(s, "OSError")
         ELSE RemoveEach([s EXCEPT !.worktree[Head(paths)] = Absent], Tail(paths))

\* git ls-files -z
LsFilesZ(s) ==
    GitOutput(Lines([n \in 1..Len(SelectSeq(SortedPaths, LAMBDA p : s.index[p] # Absent)) |->
                         <<SelectSeq(SortedPaths, LAMBDA p : s.index[p] # Absent)[n]>>], NUL))

\* A one-atom string of ls-files is a path; '' is no path.
PathOf(string) == IF Len(string) = 1 THEN string[1] ELSE ""

GitExe_discard_all(s) ==
    Cd(s.cwd,
       LET in == Chdir(s, SelfWorkdir)
           staged == GitExe_stage_all(in).s
           head == HeadCommit(staged)
           paths == Split(RStrip(LsFilesZ(staged), {NUL, " "}), NUL)
       IN  IF head = <<>>
           THEN RemoveEach(staged, [n \in 1..Len(paths) |-> PathOf(paths[n])])
           ELSE Return(ResetHard(staged, head[1]), None))

GitExe_safe_checkout(s, ref) ==
    IF Truthy(GitExe_dirty(s).ret) THEN Raise(GitExe_dirty(s).s, "DirtyWorkTree")
    ELSE Cd(s.cwd,
            LET in == Chdir(GitExe_dirty(s).s, SelfWorkdir)
            IN  IF RevParse(in, ref) = <<>> THEN Raise(in, "InvalidRef")
                ELSE Return(GitCheckout(in, ref), None))

\* Mutant of GitExe_commit: the operands of `ref or symbolic-ref` swapped, so
\* the branch HEAD is on is updated even when a ref is given.
GitExe_commit_HeadFirst(s, message, ref, now) ==
    Cd(s.cwd,
       LET in == Chdir(s, SelfPath)
           tree == WriteTree(in)
           prev_commit == HeadCommit(in)
           target == IF SymbolicRefHead(in) # <<>> THEN SymbolicRefHead(in) ELSE ref
           commit == CommitObject(tree, prev_commit, now, message)
       IN  IF target # <<>> THEN Return(UpdateRef(in, target, commit), None)
           ELSE Return(in, None))

\* commit(message, ref): ref is <<>> for None; now is the second git stamps
\* the commit with.
GitExe_commit(s, message, ref, now) ==
    Cd(s.cwd,
       LET in == Chdir(s, SelfPath)
           tree == WriteTree(in)
           prev_commit == HeadCommit(in)
           target == IF ref # <<>> THEN ref ELSE SymbolicRefHead(in)
           commit == CommitObject(tree, prev_commit, now, message)
       IN  IF target # <<>> THEN Return(UpdateRef(in, target, commit), None)
           ELSE Return(in, None))

\* ------------------------------------------------------------ PyGit2Repo
head_is_detached(s) == ~IsSymbolic(s)
head_is_unborn(s) == IsUnborn(s)

PyGit2_current_branch(s) ==
    IF head_is_detached(s) THEN Raise(s, "DetachedHead")
    ELSE Return(s, ReSubAnchored(HeadsPrefix, s.HEAD.ref[1]))

PyGit2_refs(s) == Return(s, Enumerate(DOMAIN s.refs))

PyGit2_branches(s) ==
    Return(s, Enumerate({SubSeq(r, Len(HeadsPrefix) + 1, Len(r)) :
                             r \in {q \in DOMAIN s.refs : StartsWith(q, HeadsPrefix)}}))

PyGit2_dirty(s) ==
    Return(s, IF \E p \in DOMAIN Status(s) : Status(s)[p] # GIT_STATUS_CURRENT
              THEN True ELSE False)

\* What the installed pygit2/libgit2 does where releases differ:
\*   add_all_removes  Index.add_all also drops entries whose file is gone;
\*   live_iterator    iterating the index stops at its current end (otherwise at
\*                    the length it had when the iteration began, and reading
\*                    a position past the end raises KeyError);
\*   validates_tip    create_commit refuses to move an existing reference
\*                    whose tip is not the first parent.
Builds ==
    [add_all_removes : BOOLEAN, live_iterator : BOOLEAN, validates_tip : BOOLEAN]

\* The index entries, in index order.
Entries(ix) == SelectSeq(SortedPaths, LAMBDA p : ix[p] # Absent)

\* Index.add_all([])
AddAll(s, ix, build) ==
    [p \in Paths |->
        IF s.worktree[p] # Absent THEN s.worktree[p]
        ELSE IF build.add_all_removes THEN Absent ELSE ix[p]]

\* for entry in self.git.index: add it, or remove it when its file is gone.
\* n is the position of the iterator, max the length of the index when the
\* loop began.  The result is the index, or <<>> when the iteration raises.
RECURSIVE AddEachEntry(_, _, _, _, _)
AddEachEntry(s, ix, n, max, build) ==
    IF build.live_iterator /\ n > Len(Entries(ix)) THEN <<ix>>
    ELSE IF ~build.live_iterator /\ n > max THEN <<ix>>
    ELSE IF n > Len(Entries(ix)) THEN <<>>
    ELSE LET path == Entries(ix)[n]
         IN  IF s.worktree[path] # Absent
             THEN AddEachEntry(s, [ix EXCEPT ![path] = s.worktree[path]], n + 1, max, build)
             ELSE AddEachEntry(s, [ix EXCEPT ![path] = Absent], n + 1, max, build)

PyGit2_stage_all(s, build) ==
    LET added == AddAll(s, s.index, build)
        done == AddEachEntry(s, added, 1, Len(Entries(added)), build)
    IN  IF done = <<>> THEN Raise(s, "KeyError")
        ELSE Return([s EXCEPT !.index = done[1]], None)

PyGit2_unstage_all(s) ==
    IF head_is_unborn(s) THEN Return(ReadTree(s, EmptyTree), None)
    ELSE Return(ReadTree(s, HeadCommit(s)[1].tree), None)

\* Repository.create_commit(ref, author, committer, message, tree, parents)
CreateCommit(s, ref, message, tree, parents, now, build) ==
    LET commit == CommitObject(tree, parents, now, message)
        tip == IF ref \in DOMAIN s.refs THEN <<s.refs[ref]>> ELSE <<>>
    IN  IF ref = <<>> THEN Return(s, None)
        ELSE IF build.validates_tip /\ tip # <<>> /\ tip # parents
             THEN Raise(s, "GitError")
             ELSE Return(UpdateRef(s, ref, commit), None)

\* Mutant of PyGit2_commit: the parents are always the empty list.
PyGit2_commit_NoParents(s, message, ref, now, signature, build) ==
    IF ~signature THEN Raise(s, "TwitError")
    ELSE LET tree == WriteTree(s)
             parents == <<>>
             target == IF ref = <<>> /\ ~head_is_detached(s) THEN s.HEAD.ref[1] ELSE ref
         IN  CreateCommit(s, target, message, tree, parents, now, build)

\* signature: whether user.name and user.email are configured.
PyGit2_commit(s, message, ref, now, signature, build) ==
    IF ~signature THEN Raise(s, "TwitError")
    ELSE LET tree == WriteTree(s)
             parents == IF head_is_unborn(s) THEN <<>> ELSE HeadCommit(s)
             target == IF ref = <<>> /\ ~head_is_detached(s) THEN s.HEAD.ref[1] ELSE ref
         IN  CreateCommit(s, target, message, tree, parents, now, build)

\* -------------------------------------------------------------- TwitMixin
\* self: the repository object, [backend, build, signature].
GitExeTwitRepo == [backend |-> "GitExe",
                   build |-> [add_all_removes |-> TRUE, live_iterator |-> TRUE,
                              validates_tip |-> TRUE],
                   signature |-> TRUE]
PyGit2TwitRepos ==
    {[backend |-> "PyGit2", build |-> b, signature |-> g] : b \in Builds, g \in BOOLEAN}
\* A PyGit2TwitRepo on a current build, with the user's identity configured.
PyGit2TwitRepo == [GitExeTwitRepo EXCEPT !.backend = "PyGit2"]
Repos == {GitExeTwitRepo} \cup PyGit2TwitRepos

self_refs(self, s) ==
    IF self.backend = "GitExe" THEN GitExe_refs(s) ELSE PyGit2_refs(s)
self_branches(self, s) ==
    IF self.backend = "GitExe" THEN GitExe_branches(s) ELSE PyGit2_branches(s)
self_stage_all(self, s) ==
    IF self.backend = "GitExe" THEN GitExe_stage_all(s)
    ELSE PyGit2_stage_all(s, self.build)
self_unstage_all(self, s) ==
    IF self.backend = "GitExe" THEN GitExe_unstage_all(s) ELSE PyGit2_unstage_all(s)
self_commit(self, s, message, ref, now) ==
    IF self.backend = "GitExe" THEN GitExe_commit(s, message, ref, now)
    ELSE PyGit2_commit(s, message, ref, now, self.signature, self.build)

SnapshotPrefix == <<"refs", "/", "hidden", "/", "tags", "/", "twit", "/">>

snapshots(self, s) ==
    LET r == self_refs(self, s)
    IN  [r EXCEPT !.ret = SelectSeq(r.ret, LAMBDA ref : StartsWith(ref, SnapshotPrefix))]

\* 'refs/hidden/tags/twit/{}'.format(now)
SnapshotRef(now) == SnapshotPrefix \o <<ToString(now)>>

\* Mutant of save: the closing unstage_all is left out.
save_WithoutUnstage(self, s, time) ==
    LET staged == self_stage_all(self, s)
        now == time
        ref == SnapshotRef(now)
        committed == self_commit(self, staged.s, SnapshotMessage, ref, now)
    IN  IF staged.raised # "" THEN staged ELSE committed

save(self, s, time) ==
    LET staged == self_stage_all(self, s)
        now == time
        ref == SnapshotRef(now)
        committed == self_commit(self, staged.s, SnapshotMessage, ref, now)
    IN  IF staged.raised # "" THEN staged
        ELSE IF committed.raised # "" THEN committed
        ELSE self_unstage_all(self, committed.s)

VARIABLES
    worktree,   \* path -> content of the file, or Absent
    index,      \* path -> content staged, or Absent
    HEAD,       \* [ref: <<name>> when symbolic, commit: <<c>> when detached]
    refs,       \* full reference name -> commit
    clock,      \* the whole second time.time() shows
    cwd,        \* os.getcwd()
    last,       \* the call that produced this state
    steps       \* the steps taken so far

vars == <<worktree, index, HEAD, refs, clock, cwd, last, steps>>

Cur == ProcState(worktree, index, HEAD, refs, cwd)
\* The names safe_checkout is called with.
CheckoutArgs == {Master, <<"v1.0">>, SnapshotRef(1), <<"nosuch">>}

Init ==
    /\ worktree = EmptyTree
    /\ index = EmptyTree
    /\ HEAD = [ref |-> <<HeadsPrefix \o Master>>, commit |-> <<>>]
    /\ refs = <<>>
    /\ clock = 1
    /\ cwd = WorkDir
    /\ last = [name |-> "init", backend |-> "", raised |-> "", ret |-> <<>>]
    /\ steps = 0

\* The repository and the process after a call that gave `result`.
Called(name, backend, result) ==
    /\ worktree' = result.s.worktree
    /\ index' = result.s.index
    /\ HEAD' = result.s.HEAD
    /\ refs' = result.s.refs
    /\ cwd' = result.s.cwd
    /\ last' = [name |-> name, backend |-> backend,
                raised |-> result.raised, ret |-> result.ret]

\* Every step of a run is counted.
Counted ==
    /\ steps < MaxSteps
    /\ steps' = steps + 1

Outside == [name |-> "outside", backend |-> "", raised |-> "", ret |-> <<>>]

\* ---------------------------------------------- what happens around twit
\* The user edits the work tree and runs git, as the tests do.
WriteFile ==
    \E p \in Paths, c \in Contents :
        /\ c \in Written[p]
        /\ worktree[p] # c
        /\ worktree' = [worktree EXCEPT ![p] = c]
        /\ last' = Outside
    /\ Counted
        /\ Counted
        /\ UNCHANGED <<index, HEAD, refs, clock, cwd>>

RemoveFile ==
    \E p \in Paths :
        /\ worktree[p] # Absent
        /\ worktree' = [worktree EXCEPT ![p] = Absent]
        /\ last' = Outside
    /\ Counted
        /\ Counted
        /\ UNCHANGED <<index, HEAD, refs, clock, cwd>>

\* git add <name>
GitAdd ==
    \E p \in Paths :
        /\ index[p] # worktree[p]
        /\ index' = [index EXCEPT ![p] = worktree[p]]
        /\ last' = Outside
    /\ Counted
        /\ Counted
        /\ UNCHANGED <<worktree, HEAD, refs, clock, cwd>>

\* git checkout -b <branch>
GitCheckoutNewBranch ==
    \E b \in BranchNames :
        /\ IsSymbolic(Cur)
        /\ (HeadsPrefix \o b) \notin DOMAIN refs
        /\ HEAD.ref[1] # HeadsPrefix \o b
        /\ HEAD' = [ref |-> <<HeadsPrefix \o b>>, commit |-> <<>>]
        /\ refs' = IF HeadCommit(Cur) = <<>> THEN refs
                   ELSE ((HeadsPrefix \o b) :> HeadCommit(Cur)[1]) @@ refs
        /\ last' = Outside
    /\ Counted
        /\ Counted
        /\ UNCHANGED <<worktree, index, clock, cwd>>

\* git checkout <head commit>
GitCheckoutDetached ==
    /\ IsSymbolic(Cur)
    /\ HeadCommit(Cur) # <<>>
    /\ HEAD' = [ref |-> <<>>, commit |-> HeadCommit(Cur)]
    /\ last' = Outside
    /\ Counted
    /\ UNCHANGED <<worktree, index, refs, clock, cwd>>

\* git tag v1.0
GitTag ==
    /\ HeadCommit(Cur) # <<>>
    /\ TagRef \notin DOMAIN refs
    /\ refs' = (TagRef :> HeadCommit(Cur)[1]) @@ refs
    /\ last' = Outside
    /\ Counted
    /\ UNCHANGED <<worktree, index, HEAD, clock, cwd>>

\* os.chdir by the caller
ChangeDirectory ==
    \E d \in CallerDirs :
        /\ d # cwd
        /\ cwd' = d
        /\ last' = Outside
    /\ Counted
        /\ Counted
        /\ UNCHANGED <<worktree, index, HEAD, refs, clock>>

\* A second passes.
Tick ==
    /\ clock < MaxTime
    /\ clock' = clock + 1
    /\ last' = Outside
    /\ Counted
    /\ UNCHANGED <<worktree, index, HEAD, refs, cwd>>

\* ------------------------------------------------------------- the calls
current_branch ==
    /\ \/ Called("current_branch", "GitExe", GitExe_current_branch(Cur))
       \/ Called("current_branch", "PyGit2", PyGit2_current_branch(Cur))
    /\ UNCHANGED clock
    /\ Counted

refs_ ==
    /\ \/ Called("refs", "GitExe", GitExe_refs(Cur))
       \/ Called("refs", "PyGit2", PyGit2_refs(Cur))
    /\ UNCHANGED clock
    /\ Counted

branches ==
    /\ \/ Called("branches", "GitExe", GitExe_branches(Cur))
       \/ Called("branches", "PyGit2", PyGit2_branches(Cur))
    /\ UNCHANGED clock
    /\ Counted

dirty ==
    /\ \/ Called("dirty", "GitExe", GitExe_dirty(Cur))
       \/ Called("dirty", "PyGit2", PyGit2_dirty(Cur))
    /\ UNCHANGED clock
    /\ Counted

stage_all ==
    /\ \E self \in Repos :
           /\ self.signature /\ self.build.validates_tip
           /\ Called("stage_all", self.backend, self_stage_all(self, Cur))
    /\ UNCHANGED clock
    /\ Counted

unstage_all ==
    /\ \E self \in {GitExeTwitRepo, PyGit2TwitRepo} :
           Called("unstage_all", self.backend, self_unstage_all(self, Cur))
    /\ UNCHANGED clock
    /\ Counted

commit ==
    /\ Depth(HeadCommit(Cur)) < MaxDepth
    /\ \E self \in Repos, message \in Messages :
           /\ self.build.add_all_removes /\ self.build.live_iterator
           /\ Called("commit", self.backend, self_commit(self, Cur, message, <<>>, clock))
    /\ UNCHANGED clock
    /\ Counted

save_ ==
    /\ Depth(HeadCommit(Cur)) < MaxDepth
    /\ \E self \in Repos : Called("save", self.backend, save(self, Cur, clock))
    /\ UNCHANGED clock
    /\ Counted

discard_all ==
    /\ Called("discard_all", "GitExe", GitExe_discard_all(Cur))
    /\ UNCHANGED clock
    /\ Counted

safe_checkout ==
    /\ \E ref \in CheckoutArgs :
           Called("safe_checkout", "GitExe", GitExe_safe_checkout(Cur, ref))
    /\ UNCHANGED clock
    /\ Counted

Next ==
    \/ WriteFile
    \/ RemoveFile
    \/ GitAdd
    \/ GitCheckoutNewBranch
    \/ GitCheckoutDetached
    \/ GitTag
    \/ ChangeDirectory
    \/ Tick
    \/ current_branch
    \/ refs_
    \/ branches
    \/ dirty
    \/ stage_all
    \/ unstage_all
    \/ commit
    \/ save_
    \/ discard_all
    \/ safe_checkout

Spec == Init /\ [][Next]_vars

\* ------------------------------------------------------------ the claims
\* The state after the step, as the operations see it.
CurNext == ProcState(worktree', index', HEAD', refs', cwd')
Returned(name) == last.name = name /\ last.raised = ""
ReturnedNext(name) == last'.name = name /\ last'.raised = ""
\* The repository object of the backend that made the last call (the build
\* and the identity do not matter to refs and branches).
RepoOf(backend) == IF backend = "GitExe" THEN GitExeTwitRepo ELSE PyGit2TwitRepo

\* os.path.dirname(path)
RECURSIVE Dirname(_)
Dirname(path) ==
    IF path = <<>> THEN <<>>
    ELSE IF path[Len(path)] = "/" THEN SubSeq(path, 1, Len(path) - 1)
    ELSE Dirname(SubSeq(path, 1, Len(path) - 1))

\* The lines of git status -z, as the tests read them.
StatusLines(s) ==
    LET status == RStrip(StatusZ(s), {NUL, " "})
    IN  IF status = <<>> THEN <<>> ELSE Split(status, NUL)

C2_CurrentBranch ==
    last.name = "current_branch" =>
        IF HEAD.ref = <<>> THEN last.raised = "DetachedHead"
        ELSE /\ last.raised = ""
             /\ \E b \in BranchNames : HEAD.ref[1] = HeadsPrefix \o b /\ last.ret = b

\* C2 witness: current_branch returned the name of an unborn branch, and that
\* name itself begins with refs/heads/.
C2_Witness ==
    /\ Returned("current_branch")
    /\ last.backend = "GitExe"
    /\ IsUnborn(Cur)
    /\ last.ret = OddBranch

\* C3: refs, on either backend, returns exactly the reference names of the
\* repository: the same elements, none extra, none missing.
C3_RefsExact ==
    Returned("refs") =>
        /\ Elements(last.ret) = DOMAIN refs
        /\ Len(last.ret) = Cardinality(DOMAIN refs)

\* C4: after save returns on branch B, some reference lies directly in
\* refs/hidden/heads/twit/B.
C4_SnapshotUnderHiddenHeads ==
    (Returned("save") /\ IsSymbolic(Cur)) =>
        \E r \in DOMAIN refs :
            Dirname(r) = <<"refs", "/", "hidden", "/", "heads", "/", "twit", "/">>
                             \o ReSubAnchored(HeadsPrefix, HEAD.ref[1])

\* C5: a save that returns leaves HEAD, every reference under refs/heads/ and
\* refs/tags/, the value of branches and every file of the work tree as they
\* were; a reference it creates or changes is a hidden one outside refs/heads/.
C5_SaveKeepsVisibleHistory ==
    [][ReturnedNext("save") =>
         /\ HEAD' = HEAD
         /\ worktree' = worktree
         /\ \A r \in DOMAIN refs \cup DOMAIN refs' :
                IF r \in DOMAIN refs /\ r \in DOMAIN refs' /\ refs'[r] = refs[r]
                THEN TRUE
                ELSE /\ StartsWith(r, <<"refs", "/", "hidden", "/">>)
                     /\ ~StartsWith(r, HeadsPrefix)
                     /\ ~StartsWith(r, TagsPrefix)
         /\ \A self \in {GitExeTwitRepo, PyGit2TwitRepo} :
                Elements(self_branches(self, CurNext).ret)
                    = Elements(self_branches(self, Cur).ret)
       ]_vars

\* C5 witness: save returned in a repository with a born branch and a tag,
\* and its snapshot reference is there.
C5_Witness ==
    /\ Returned("save")
    /\ HeadCommit(Cur) # <<>>
    /\ TagRef \in DOMAIN refs
    /\ \E r \in DOMAIN refs :
           StartsWith(r, SnapshotPrefix) /\ refs[r].parents = HeadCommit(Cur)

\* C6: a stage_all that returns leaves no path with an unstaged work-tree
\* change (the index holds the work tree's files and contents); the commit
\* recorded by a save that returns has the work tree at the call as its tree
\* and the HEAD commit, when there is one, as its parent.
C6_SnapshotIsFullWorkTree ==
    [][/\ ReturnedNext("stage_all") => index' = worktree'
       /\ ReturnedNext("save") =>
              /\ SnapshotRef(clock) \in DOMAIN refs'
              /\ refs'[SnapshotRef(clock)].tree = worktree
              /\ refs'[SnapshotRef(clock)].parents = HeadCommit(Cur)
      ]_vars

\* C7: GitExeRepo.dirty and PyGit2Repo.dirty have the same truth value in
\* every repository state.
C7_DirtyAgrees ==
    Truthy(GitExe_dirty(Cur).ret) = Truthy(PyGit2_dirty(Cur).ret)

\* C8: a commit(message) that returns while HEAD is attached to branch B leaves
\* B at a new commit whose tree is the index at the call and whose parents are
\* the previous HEAD commit (none when HEAD was unborn); HEAD, the index and
\* the work tree are unchanged, and a path staged as it is in the work tree
\* shows no change in git status afterwards.
C8_CommitAdvancesBranch ==
    [][(ReturnedNext("commit") /\ IsSymbolic(Cur)) =>
         /\ HEAD' = HEAD
         /\ index' = index
         /\ worktree' = worktree
         /\ HEAD.ref[1] \in DOMAIN refs'
         /\ refs'[HEAD.ref[1]].tree = index
         /\ refs'[HEAD.ref[1]].parents = HeadCommit(Cur)
         /\ <<refs'[HEAD.ref[1]]>> # HeadCommit(Cur)
         /\ \A p \in Paths : index[p] = worktree[p] => StatusEntries(CurNext, p) = <<>>
       ]_vars

\* C8 witness: a second commit on a branch: the branch is at a commit that
\* has a parent, with a file staged in between.
C8_Witness ==
    /\ Returned("commit")
    /\ last.backend = "PyGit2"
    /\ IsSymbolic(Cur)
    /\ HeadCommit(Cur) # <<>>
    /\ HeadCommit(Cur)[1].parents # <<>>
    /\ HeadCommit(Cur)[1].tree # HeadCommit(Cur)[1].parents[1].tree

\* C9: every GitExeRepo operation leaves the current working directory as it
\* was before the call, when it returns and when it raises DetachedHead or
\* InvalidRef.
C9_CwdRestored ==
    [][(last'.backend = "GitExe" /\ last'.raised \in {"", "DetachedHead", "InvalidRef"})
           => cwd' = cwd]_vars

\* C10: a save that returns adds exactly one reference to snapshots and leaves
\* every snapshot reference that was there in place, at the same commit.
C10_SnapshotsNeverLost ==
    [][ReturnedNext("save") =>
         LET before == Elements(snapshots(RepoOf(last'.backend), Cur).ret)
             after == Elements(snapshots(RepoOf(last'.backend), CurNext).ret)
         IN  /\ before \subseteq after
             /\ Cardinality(after) = Cardinality(before) + 1
             /\ \A r \in before : refs'[r] = refs[r]
       ]_vars

====
